---------------------------- MODULE Spec2Model ----------------------------
(***************************************************************************)
(* Model of the alexandria-ipfs storage layer:                             *)
(*   - encodeBase58 and the CIDv0 computation of MockClient.Upload,        *)
(*   - MockClient (in-memory adapter) and BlockfrostClient (remote         *)
(*     adapter), the two implementations of IPFSClient,                    *)
(*   - GRPCServer, the RPC translation layer.                              *)
(* Go strings are modelled as sequences of one-character strings, byte     *)
(* slices as sequences of numbers in 0..255.                               *)
(***************************************************************************)
EXTENDS Integers, Sequences, FiniteSets, TLC

(***************************************************************************)
(* Bounds of the model.                                                    *)
(***************************************************************************)
\* longest byte sequence given to encodeBase58 in SpecB58
MaxLen == 3
\* number of distinct payloads (a prefix of PayloadList) callers upload
NumPayloads == 3
\* number of goroutines uploading concurrently in SpecConc
NumUploaders == 2

(***************************************************************************)
(* Generic helpers.                                                        *)
(***************************************************************************)
\* all sequences over S of length at most n
SeqsUpTo(S, n) == UNION {[1..k -> S] : k \in 0..n}

\* the sequence s with x put in front (Go: append([]byte{x}, s...))
Prepend(x, s) == <<x>> \o s

(***************************************************************************)
(* encodeBase58 (grpc.go 160-214).                                         *)
(***************************************************************************)
base58Alphabet ==
  << "1", "2", "3", "4", "5", "6", "7", "8", "9", "A", "B", "C", "D", "E",
     "F", "G", "H", "J", "K", "L", "M", "N", "P", "Q", "R", "S", "T", "U",
     "V", "W", "X", "Y", "Z", "a", "b", "c", "d", "e", "f", "g", "h", "i",
     "j", "k", "m", "n", "o", "p", "q", "r", "s", "t", "u", "v", "w", "x",
     "y", "z" >>

\* Go's base58Alphabet[i], a 0-based index
AlphabetAt(i) == base58Alphabet[i + 1]

\* lines 166-172: the number of zero bytes before the first non-zero byte
RECURSIVE CountLeadingZeros(_)
CountLeadingZeros(input) ==
  IF input = <<>> \/ Head(input) # 0
  THEN 0
  ELSE 1 + CountLeadingZeros(Tail(input))

\* lines 184-187: index (0-based) of the first non-zero byte, len(data) if none
RECURSIVE FirstNonZero(_)
FirstNonZero(data) ==
  IF data = <<>> \/ Head(data) # 0
  THEN 0
  ELSE 1 + FirstNonZero(Tail(data))

\* lines 194-203: one long division of data by 58, byte by byte from index i;
\* newData drops the leading zero digits of the quotient
RECURSIVE DivideBy58(_, _, _, _)
DivideBy58(data, i, remainder, newData) ==
  IF i > Len(data)
  THEN [newData |-> newData, remainder |-> remainder]
  ELSE LET acc   == remainder * 256 + data[i]
           digit == acc \div 58
       IN  DivideBy58(data, i + 1, acc % 58,
                      IF Len(newData) > 0 \/ digit > 0
                      THEN Append(newData, digit % 256)
                      ELSE newData)

\* lines 182-206: the loop "for len(data) > 0"
RECURSIVE EncodeLoop(_, _)
EncodeLoop(data, result) ==
  IF Len(data) = 0
  THEN result
  ELSE LET firstNonZero == FirstNonZero(data)
       IN  IF firstNonZero = Len(data)
           THEN result
           ELSE LET rest == SubSeq(data, firstNonZero + 1, Len(data))
                    d    == DivideBy58(rest, 1, 0, <<>>)
                IN  EncodeLoop(d.newData,
                               Prepend(AlphabetAt(d.remainder), result))

\* lines 209-211: one '1' in front per leading zero byte
RECURSIVE AddLeadingOnes(_, _)
AddLeadingOnes(n, result) ==
  IF n = 0 THEN result ELSE AddLeadingOnes(n - 1, Prepend("1", result))

\* a base-58 encoder that forgets the leading zero bytes
encodeBase58_NoLeadingOnes(input) ==
  EncodeLoop(input, <<>>)

\* lines 164-214; the loop works on a copy (179-180), input is only read
encodeBase58(input) ==
  AddLeadingOnes(CountLeadingZeros(input), EncodeLoop(input, <<>>))


(***************************************************************************)
(* Identifier computation of MockClient.Upload (grpc.go 242-251).          *)
(***************************************************************************)
\* the payloads callers upload, in a fixed order
PayloadList ==
  << <<>>, <<0>>, <<1>>, <<0, 1>>, <<255>> >>

Payloads == {PayloadList[i] : i \in 1..NumPayloads}

\* crypto/sha256.Sum256 on the payloads of PayloadList (the library function,
\* tabulated: its real 32-byte values)
Sha256(data) ==
  CASE data = <<>> ->
         << 227, 176, 196, 66, 152, 252, 28, 20, 154, 251, 244, 200, 153, 111,
            185, 36, 39, 174, 65, 228, 100, 155, 147, 76, 164, 149, 153, 27,
            120, 82, 184, 85 >>
    [] data = <<0>> ->
         << 110, 52, 11, 156, 255, 179, 122, 152, 156, 165, 68, 230, 187, 120,
            10, 44, 120, 144, 29, 63, 179, 55, 56, 118, 133, 17, 163, 6, 23,
            175, 160, 29 >>
    [] data = <<1>> ->
         << 75, 245, 18, 47, 52, 69, 84, 197, 59, 222, 46, 187, 140, 210, 183,
            227, 209, 96, 10, 214, 49, 195, 133, 165, 215, 204, 226, 60, 119,
            133, 69, 154 >>
    [] data = <<0, 1>> ->
         << 180, 19, 244, 125, 19, 238, 47, 230, 200, 69, 178, 238, 20, 26,
            248, 29, 232, 88, 223, 78, 197, 73, 165, 139, 121, 112, 187, 150,
            100, 91, 200, 210 >>
    [] data = <<255>> ->
         << 168, 16, 10, 230, 170, 25, 64, 208, 182, 99, 187, 49, 205, 70, 97,
            66, 235, 189, 189, 81, 135, 19, 27, 146, 217, 56, 24, 152, 120, 50,
            235, 137 >>

\* lines 245-248: 0x12, 0x20, then the digest
Multihash(data) == <<18, 32>> \o Sha256(data)

\* lines 242-251, computed once per payload of PayloadList
CidTable == [i \in 1..Len(PayloadList) |-> encodeBase58(Multihash(PayloadList[i]))]

PayloadIndex(data) == CHOOSE i \in 1..Len(PayloadList) : PayloadList[i] = data

\* lines 242-251: the CIDv0 of data
ComputeCid(data) == CidTable[PayloadIndex(data)]

(***************************************************************************)
(* Strings and number formatting.                                          *)
(***************************************************************************)
DecimalDigits == << "0", "1", "2", "3", "4", "5", "6", "7", "8", "9" >>

\* fmt.Sprintf("%d", n) for n >= 0
RECURSIVE FormatDecimal(_)
FormatDecimal(n) ==
  IF n < 10
  THEN << DecimalDigits[n + 1] >>
  ELSE Append(FormatDecimal(n \div 10), DecimalDigits[(n % 10) + 1])

DigitValue(c) == (CHOOSE i \in 1..10 : DecimalDigits[i] = c) - 1

IsDigit(c) == \E i \in 1..10 : DecimalDigits[i] = c

RECURSIVE DigitsValue(_, _)
DigitsValue(s, acc) ==
  IF s = <<>> THEN acc ELSE DigitsValue(Tail(s), acc * 10 + DigitValue(Head(s)))

\* size, _ := strconv.ParseInt(s, 10, 64): the value of an optionally signed
\* run of decimal digits, and 0 when s is not one (the error is dropped)
ParseIntOrZero(s) ==
  LET signed == s # <<>> /\ Head(s) \in {"+", "-"}
      digits == IF signed THEN Tail(s) ELSE s
  IN  IF digits = <<>> \/ \E i \in 1..Len(digits) : ~IsDigit(digits[i])
      THEN 0
      ELSE IF signed /\ Head(s) = "-"
           THEN 0 - DigitsValue(digits, 0)
           ELSE DigitsValue(digits, 0)

\* the string literals of the handlers
StrContent == << "c", "o", "n", "t", "e", "n", "t" >>
StrDotPb   == << ".", "p", "b" >>
StrDataPb  == << "d", "a", "t", "a", ".", "p", "b" >>

(***************************************************************************)
(* Records shared by the adapters and the RPC layer.                       *)
(***************************************************************************)
\* AddResponse (config.go 87-91)
AddResponse(name, hash, size) == [Name |-> name, IPFSHash |-> hash, Size |-> size]

NoAddResponse == AddResponse(<<>>, <<>>, <<>>)

\* what one IPFSClient call returned: err is "err != nil"
ClientResult(err, add, bytes, url) ==
  [err |-> err, add |-> add, bytes |-> bytes, url |-> url]

\* one call on the storage client, as a spy would record it
ClientCall(op, cid, data, filename, r) ==
  [op |-> op, cid |-> cid, data |-> data, filename |-> filename, result |-> r]

(***************************************************************************)
(* MockClient (grpc.go 216-325): st is [storage, pins].                    *)
(***************************************************************************)
\* NewMockClient, lines 226-228 and 233
NewGatewayURL(configured) ==
  IF configured = <<>>
  THEN << "i", "o" >>
  ELSE configured

\* the gateway base the adapters are constructed with (main.go 29, 35)
gatewayURL == NewGatewayURL(<< "g", "w" >>)

\* make(map[string]...), lines 231-232
EmptyMap == [x \in {} |-> <<>>]

\* NewMockClient, lines 230-234: both maps empty
NewMockState == [storage |-> EmptyMap, pins |-> EmptyMap]

\* m[k] = v on a Go map
MapSet(m, k, v) == [x \in (DOMAIN m) \cup {k} |-> IF x = k THEN v ELSE m[x]]

\* delete(m, k) on a Go map
MapDelete(m, k) == [x \in (DOMAIN m) \ {k} |-> m[x]]

\* an Upload that keys the entry by the caller's file name
MockUpload_KeyByName(st, data, filename) ==
  [st  |-> [st EXCEPT !.storage = MapSet(st.storage, filename, data)],
   res |-> ClientResult(FALSE,
                        AddResponse(filename, ComputeCid(data),
                                    FormatDecimal(Len(data))),
                        <<>>, <<>>)]

\* an Upload that replaces the whole map by the new entry
MockUpload_Replace(st, data, filename) ==
  [st  |-> [st EXCEPT !.storage = MapSet(EmptyMap, ComputeCid(data), data)],
   res |-> ClientResult(FALSE,
                        AddResponse(filename, ComputeCid(data),
                                    FormatDecimal(Len(data))),
                        <<>>, <<>>)]

\* an Upload that also pins what it stores
MockUpload_Pins(st, data, filename) ==
  [st  |-> [storage |-> MapSet(st.storage, ComputeCid(data), data),
            pins    |-> MapSet(st.pins, ComputeCid(data), TRUE)],
   res |-> ClientResult(FALSE,
                        AddResponse(filename, ComputeCid(data),
                                    FormatDecimal(Len(data))),
                        <<>>, <<>>)]

\* Upload, lines 238-264
MockUpload(st, data, filename) ==
  LET cid == ComputeCid(data)
  IN  [st  |-> [st EXCEPT !.storage = MapSet(st.storage, cid, data)],
       res |-> ClientResult(FALSE,
                            AddResponse(filename, cid, FormatDecimal(Len(data))),
                            <<>>, <<>>)]

\* a Get that also serves identifiers that are only pinned
MockGet_ServesPinned(st, cid) ==
  IF cid \in DOMAIN st.storage
  THEN [st |-> st, res |-> ClientResult(FALSE, NoAddResponse, st.storage[cid], <<>>)]
  ELSE [st |-> st, res |-> ClientResult(~(cid \in DOMAIN st.pins), NoAddResponse, <<>>, <<>>)]

\* Get, lines 267-281
MockGet(st, cid) ==
  IF cid \in DOMAIN st.storage
  THEN [st |-> st, res |-> ClientResult(FALSE, NoAddResponse, st.storage[cid], <<>>)]
  ELSE [st |-> st, res |-> ClientResult(TRUE, NoAddResponse, <<>>, <<>>)]

\* a Pin that also creates an empty storage entry under the caller's identifier
MockPin_StoresEntry(st, cid) ==
  [st  |-> [storage |-> MapSet(st.storage, cid, <<>>),
            pins    |-> MapSet(st.pins, cid, TRUE)],
   res |-> ClientResult(FALSE, NoAddResponse, <<>>, <<>>)]

\* Pin, lines 284-291
MockPin(st, cid) ==
  [st  |-> [st EXCEPT !.pins = MapSet(st.pins, cid, TRUE)],
   res |-> ClientResult(FALSE, NoAddResponse, <<>>, <<>>)]

\* an Unpin that also evicts the stored content
MockUnpin_Evicts(st, cid) ==
  [st  |-> [storage |-> MapDelete(st.storage, cid),
            pins    |-> MapDelete(st.pins, cid)],
   res |-> ClientResult(FALSE, NoAddResponse, <<>>, <<>>)]

\* an Unpin that clears the whole pin set
MockUnpin_ClearsAll(st, cid) ==
  [st  |-> [st EXCEPT !.pins = EmptyMap],
   res |-> ClientResult(FALSE, NoAddResponse, <<>>, <<>>)]

\* Unpin, lines 294-301
MockUnpin(st, cid) ==
  [st  |-> [st EXCEPT !.pins = MapDelete(st.pins, cid)],
   res |-> ClientResult(FALSE, NoAddResponse, <<>>, <<>>)]

\* GetGatewayURL, lines 304-306: "%s/%s"
MockGetGatewayURL(cid) == gatewayURL \o << "/" >> \o cid

\* IsPinned, lines 309-313: the zero value false for a missing key
IsPinned(st, cid) == cid \in DOMAIN st.pins /\ st.pins[cid]

\* GetStoredCIDs, lines 316-325 (as a set: Go's map order is unspecified)
GetStoredCIDs(st) == DOMAIN st.storage

(***************************************************************************)
(* BlockfrostClient (config.go 55-218).  The adapter holds no mutable      *)
(* state; http is what the remote service did with the one request of the  *)
(* call: [outcome, add, body].                                             *)
(*   "request"   http.NewRequestWithContext failed                         *)
(*   "transport" httpClient.Do failed                                      *)
(*   "status"    the response status is not 200                            *)
(*   "decode"    the 200 body of add is not the expected JSON              *)
(*   "read"      reading the 200 body of a fetch failed                    *)
(*   "ok"        200 and a readable body                                   *)
(***************************************************************************)
HttpAnswer(outcome, add, body) == [outcome |-> outcome, add |-> add, body |-> body]

\* Upload, lines 94-141
BlockfrostUpload(data, filename, http) ==
  IF http.outcome \in {"request", "transport", "status", "decode"}
  THEN ClientResult(TRUE, NoAddResponse, <<>>, <<>>)
  ELSE ClientResult(FALSE, http.add, <<>>, <<>>)

\* Get, lines 144-163; io.ReadAll returns what it read together with its error
BlockfrostGet(cid, http) ==
  IF http.outcome \in {"request", "transport", "status"}
  THEN ClientResult(TRUE, NoAddResponse, <<>>, <<>>)
  ELSE ClientResult(http.outcome = "read", NoAddResponse, http.body, <<>>)

\* Pin, lines 166-188
BlockfrostPin(cid, http) ==
  ClientResult(http.outcome \in {"request", "transport", "status"},
               NoAddResponse, <<>>, <<>>)

\* Unpin, lines 191-213
BlockfrostUnpin(cid, http) ==
  ClientResult(http.outcome \in {"request", "transport", "status"},
               NoAddResponse, <<>>, <<>>)

\* GetGatewayURL, lines 216-218
BlockfrostGetGatewayURL(cid) == gatewayURL \o << "/" >> \o cid

(***************************************************************************)
(* IPFSClient (part_000 6-12): the call goes to the injected adapter.      *)
(* Each operator gives the adapter state after the call and the result.    *)
(***************************************************************************)
ClientUpload(backend, st, http, data, filename) ==
  IF backend = "mock"
  THEN MockUpload(st, data, filename)
  ELSE [st |-> st, res |-> BlockfrostUpload(data, filename, http)]

ClientGet(backend, st, http, cid) ==
  IF backend = "mock"
  THEN MockGet(st, cid)
  ELSE [st |-> st, res |-> BlockfrostGet(cid, http)]

ClientPin(backend, st, http, cid) ==
  IF backend = "mock"
  THEN MockPin(st, cid)
  ELSE [st |-> st, res |-> BlockfrostPin(cid, http)]

ClientUnpin(backend, st, http, cid) ==
  IF backend = "mock"
  THEN MockUnpin(st, cid)
  ELSE [st |-> st, res |-> BlockfrostUnpin(cid, http)]

ClientGetGatewayURL(backend, st, cid) ==
  [st  |-> st,
   res |-> ClientResult(FALSE, NoAddResponse, <<>>,
                        IF backend = "mock"
                        THEN MockGetGatewayURL(cid)
                        ELSE BlockfrostGetGatewayURL(cid))]

(***************************************************************************)
(* GRPCServer (grpc.go 13-148).  A handler gives the status code, the      *)
(* response (present = FALSE for a nil response), the calls it made on the *)
(* storage client and the adapter state it leaves.                         *)
(***************************************************************************)
RpcRequest(data, name, cid) == [Data |-> data, Name |-> name, Cid |-> cid]

RpcResponse(present, cid, size, data, success, url) ==
  [present |-> present, Cid |-> cid, SizeBytes |-> size, Data |-> data,
   Success |-> success, Url |-> url]

NilResponse == RpcResponse(FALSE, <<>>, 0, <<>>, FALSE, <<>>)

RpcOutcome(code, resp, calls, st) ==
  [code |-> code, resp |-> resp, calls |-> calls, st |-> st]

\* the upload path shared by UploadContent and UploadProto: lines 37-47, 61-71
UploadAndAnswer(backend, st, http, data, filename) ==
  LET c    == ClientUpload(backend, st, http, data, filename)
      call == ClientCall("Upload", <<>>, data, filename, c.res)
  IN  IF c.res.err
      THEN RpcOutcome("Internal", NilResponse, <<call>>, c.st)
      ELSE RpcOutcome("OK",
                      RpcResponse(TRUE, c.res.add.IPFSHash,
                                  ParseIntOrZero(c.res.add.Size),
                                  <<>>, FALSE, <<>>),
                      <<call>>, c.st)

\* an UploadContent that validates after delegating
UploadContent_ValidatesLate(backend, st, http, req) ==
  LET out == UploadAndAnswer(backend, st, http, req.Data,
                             IF req.Name = <<>> THEN StrContent ELSE req.Name)
  IN  IF Len(req.Data) = 0
      THEN RpcOutcome("InvalidArgument", NilResponse, out.calls, out.st)
      ELSE out

\* UploadContent, lines 27-48
UploadContent(backend, st, http, req) ==
  IF Len(req.Data) = 0
  THEN RpcOutcome("InvalidArgument", NilResponse, <<>>, st)
  ELSE UploadAndAnswer(backend, st, http, req.Data,
                       IF req.Name = <<>> THEN StrContent ELSE req.Name)

\* UploadProto, lines 51-72; req.Name is the proto type
UploadProto(backend, st, http, req) ==
  IF Len(req.Data) = 0
  THEN RpcOutcome("InvalidArgument", NilResponse, <<>>, st)
  ELSE UploadAndAnswer(backend, st, http, req.Data,
                       IF req.Name = <<>> THEN StrDataPb ELSE req.Name \o StrDotPb)

\* the fetch path shared by GetContent and GetProto: lines 80-88, 97-104
FetchAndAnswer(backend, st, http, cid, withSize) ==
  LET c    == ClientGet(backend, st, http, cid)
      call == ClientCall("Get", cid, <<>>, <<>>, c.res)
  IN  IF c.res.err
      THEN RpcOutcome("NotFound", NilResponse, <<call>>, c.st)
      ELSE RpcOutcome("OK",
                      RpcResponse(TRUE, <<>>,
                                  IF withSize THEN Len(c.res.bytes) ELSE 0,
                                  c.res.bytes, FALSE, <<>>),
                      <<call>>, c.st)

\* a GetContent that reports a failed fetch as an internal failure
GetContent_Internal(backend, st, http, req) ==
  LET out == FetchAndAnswer(backend, st, http, req.Cid, TRUE)
  IN  IF req.Cid = <<>>
      THEN RpcOutcome("InvalidArgument", NilResponse, <<>>, st)
      ELSE IF out.code = "NotFound"
           THEN RpcOutcome("Internal", NilResponse, out.calls, out.st)
           ELSE out

\* GetContent, lines 75-89
GetContent(backend, st, http, req) ==
  IF req.Cid = <<>>
  THEN RpcOutcome("InvalidArgument", NilResponse, <<>>, st)
  ELSE FetchAndAnswer(backend, st, http, req.Cid, TRUE)

\* GetProto, lines 92-105
GetProto(backend, st, http, req) ==
  IF req.Cid = <<>>
  THEN RpcOutcome("InvalidArgument", NilResponse, <<>>, st)
  ELSE FetchAndAnswer(backend, st, http, req.Cid, FALSE)

\* PinContent, lines 108-120
PinContent(backend, st, http, req) ==
  IF req.Cid = <<>>
  THEN RpcOutcome("InvalidArgument", NilResponse, <<>>, st)
  ELSE LET c    == ClientPin(backend, st, http, req.Cid)
           call == ClientCall("Pin", req.Cid, <<>>, <<>>, c.res)
       IN  IF c.res.err
           THEN RpcOutcome("Internal", NilResponse, <<call>>, c.st)
           ELSE RpcOutcome("OK", RpcResponse(TRUE, <<>>, 0, <<>>, TRUE, <<>>),
                           <<call>>, c.st)

\* UnpinContent, lines 123-135
UnpinContent(backend, st, http, req) ==
  IF req.Cid = <<>>
  THEN RpcOutcome("InvalidArgument", NilResponse, <<>>, st)
  ELSE LET c    == ClientUnpin(backend, st, http, req.Cid)
           call == ClientCall("Unpin", req.Cid, <<>>, <<>>, c.res)
       IN  IF c.res.err
           THEN RpcOutcome("Internal", NilResponse, <<call>>, c.st)
           ELSE RpcOutcome("OK", RpcResponse(TRUE, <<>>, 0, <<>>, TRUE, <<>>),
                           <<call>>, c.st)

\* GetGatewayURL, lines 138-148
GetGatewayURL(backend, st, http, req) ==
  IF req.Cid = <<>>
  THEN RpcOutcome("InvalidArgument", NilResponse, <<>>, st)
  ELSE LET c    == ClientGetGatewayURL(backend, st, req.Cid)
           call == ClientCall("GetGatewayURL", req.Cid, <<>>, <<>>, c.res)
       IN  RpcOutcome("OK", RpcResponse(TRUE, <<>>, 0, <<>>, FALSE, c.res.url),
                      <<call>>, c.st)

(***************************************************************************)
(* State.                                                                  *)
(*   backend   which adapter main injected: "mock" or "blockfrost"         *)
(*   mock      the MockClient's maps [storage, pins]                       *)
(*   acked     history: the identifiers whose pin the remote service has   *)
(*             acknowledged and not since acknowledged the removal of      *)
(*   last      the last operation: its layer ("client" for a direct call   *)
(*             on the adapter, "rpc" for a handler), request, what the     *)
(*             remote service did with the adapter's request, outcome, the *)
(*             storage-client calls it made, the state before it, and, for *)
(*             an Unpin(x) right after a Pin(x) of an x that was not       *)
(*             pinned, the pin set before that Pin (cancels)               *)
(*   uploaded  history: the [cid, data] pairs MockClient.Upload returned   *)
(*   gor, mu   the goroutines and the RWMutex of SpecConc                  *)
(*   b58       the encodeBase58 call of SpecB58                            *)
(***************************************************************************)
VARIABLES backend, mock, acked, last, uploaded, gor, mu, b58

vars == <<backend, mock, acked, last, uploaded, gor, mu, b58>>

(***************************************************************************)
(* Inputs.                                                                 *)
(***************************************************************************)
\* an identifier no upload of the model produces
UnknownCid == << "Q", "m" >>

\* the identifiers callers pass: empty, unknown, and those of two payloads
CallerCids == {<<>>, UnknownCid, ComputeCid(PayloadList[1]), ComputeCid(PayloadList[2])}

\* file names and proto types callers pass
CallerNames == {<<>>, << "f" >>}

NoHttp == HttpAnswer("none", NoAddResponse, <<>>)

\* what the remote service may answer to an add
UploadAnswers(b) ==
  IF b = "mock"
  THEN {NoHttp}
  ELSE {HttpAnswer(o, NoAddResponse, <<>>) :
          o \in {"request", "transport", "status", "decode"}}
       \cup {HttpAnswer("ok", AddResponse(<< "f" >>, UnknownCid, size), <<>>) :
               size \in {<< "1", "2" >>, << "x" >>}}

\* what the gateway may answer to a fetch
GetAnswers(b) ==
  IF b = "mock"
  THEN {NoHttp}
  ELSE {HttpAnswer(o, NoAddResponse, <<>>) : o \in {"request", "transport", "status"}}
       \cup {HttpAnswer(o, NoAddResponse, body) :
               o \in {"ok", "read"}, body \in {<<>>, <<0>>}}

\* what the remote service may answer to a pin or an unpin
PinAnswers(b) ==
  IF b = "mock"
  THEN {NoHttp}
  ELSE {HttpAnswer(o, NoAddResponse, <<>>) :
          o \in {"request", "transport", "status", "ok"}}

(***************************************************************************)
(* History bookkeeping.                                                    *)
(***************************************************************************)
RECURSIVE AckedAfter(_, _, _)
AckedAfter(b, a, calls) ==
  IF calls = <<>> \/ b = "mock"
  THEN a
  ELSE LET c == Head(calls)
           n == IF c.result.err THEN a
                ELSE IF c.op = "Pin" THEN a \cup {c.cid}
                ELSE IF c.op = "Unpin" THEN a \ {c.cid}
                ELSE a
       IN  AckedAfter(b, n, Tail(calls))

UploadedAfter(b, u, calls) ==
  IF b = "mock"
  THEN u \cup {[cid |-> calls[i].result.add.IPFSHash, data |-> calls[i].data] :
                 i \in {j \in 1..Len(calls) :
                          calls[j].op = "Upload" /\ ~calls[j].result.err}}
  ELSE u

NoLast ==
  [layer |-> "none", op |-> "none", req |-> RpcRequest(<<>>, <<>>, <<>>),
   http |-> "none", code |-> "", resp |-> NilResponse, calls |-> <<>>,
   pre |-> [st |-> NewMockState, acked |-> {}, uploaded |-> {}],
   cancels |-> [active |-> FALSE, pins |-> EmptyMap]]

\* the variables of the other specifications, at rest
ConcIdle == gor = <<>> /\ mu = [writer |-> 0, readers |-> {}]

B58Idle == b58 = [input |-> <<>>, arg |-> <<>>, out |-> <<>>, called |-> FALSE]

(***************************************************************************)
(* Spec: operations one after another, on the adapter main selected.       *)
(***************************************************************************)
\* main.go 23-37 and 47: the adapter is chosen once, then injected
Init ==
  /\ backend \in {"mock", "blockfrost"}
  /\ mock = NewMockState
  /\ acked = {}
  /\ last = NoLast
  /\ uploaded = {}
  /\ ConcIdle
  /\ B58Idle

\* l made exactly one call on the storage client, and it was op
CalledOnce(l, op) == Len(l.calls) = 1 /\ l.calls[1].op = op

\* history: calls is an Unpin(x) that comes right after the Pin(x), recorded in
\* l, of an x that was not pinned before it
CancelsAfter(b, l, calls) ==
  IF /\ b = "mock"
     /\ Len(calls) = 1 /\ calls[1].op = "Unpin"
     /\ CalledOnce(l, "Pin") /\ l.calls[1].cid = calls[1].cid
     /\ ~l.calls[1].result.err
     /\ ~IsPinned(l.pre.st, calls[1].cid)
  THEN [active |-> TRUE, pins |-> l.pre.st.pins]
  ELSE [active |-> FALSE, pins |-> EmptyMap]

\* one operation: the adapter state it leaves and the record of it
Finish(layer, op, req, http, out) ==
  /\ mock' = out.st
  /\ last' = [layer |-> layer, op |-> op, req |-> req,
              http |-> http.outcome, code |-> out.code,
              resp |-> out.resp, calls |-> out.calls,
              pre |-> [st |-> mock, acked |-> acked, uploaded |-> uploaded],
              cancels |-> CancelsAfter(backend, last, out.calls)]
  /\ acked' = AckedAfter(backend, acked, out.calls)
  /\ uploaded' = UploadedAfter(backend, uploaded, out.calls)
  /\ UNCHANGED <<backend, gor, mu, b58>>

\* a direct call on the adapter, outside any handler
Direct(op, req, http, c) ==
  Finish("client", op, req, http,
         RpcOutcome("", NilResponse,
                    << ClientCall(op, req.Cid, req.Data, req.Name, c.res) >>, c.st))

CallUpload ==
  \E data \in Payloads, name \in CallerNames, http \in UploadAnswers(backend) :
    Direct("Upload", RpcRequest(data, name, <<>>), http,
           ClientUpload(backend, mock, http, data, name))

CallGet ==
  \E cid \in CallerCids, http \in GetAnswers(backend) :
    Direct("Get", RpcRequest(<<>>, <<>>, cid), http, ClientGet(backend, mock, http, cid))

CallPin ==
  \E cid \in CallerCids, http \in PinAnswers(backend) :
    Direct("Pin", RpcRequest(<<>>, <<>>, cid), http, ClientPin(backend, mock, http, cid))

CallUnpin ==
  \E cid \in CallerCids, http \in PinAnswers(backend) :
    Direct("Unpin", RpcRequest(<<>>, <<>>, cid), http, ClientUnpin(backend, mock, http, cid))

CallGetGatewayURL ==
  \E cid \in CallerCids :
    Direct("GetGatewayURL", RpcRequest(<<>>, <<>>, cid), NoHttp,
           ClientGetGatewayURL(backend, mock, cid))

RpcUploadContent ==
  \E data \in Payloads, name \in CallerNames, http \in UploadAnswers(backend) :
    LET req == RpcRequest(data, name, <<>>)
    IN  Finish("rpc", "UploadContent", req, http, UploadContent(backend, mock, http, req))

RpcUploadProto ==
  \E data \in Payloads, name \in CallerNames, http \in UploadAnswers(backend) :
    LET req == RpcRequest(data, name, <<>>)
    IN  Finish("rpc", "UploadProto", req, http, UploadProto(backend, mock, http, req))

RpcGetContent ==
  \E cid \in CallerCids, http \in GetAnswers(backend) :
    LET req == RpcRequest(<<>>, <<>>, cid)
    IN  Finish("rpc", "GetContent", req, http, GetContent(backend, mock, http, req))

RpcGetProto ==
  \E cid \in CallerCids, http \in GetAnswers(backend) :
    LET req == RpcRequest(<<>>, <<>>, cid)
    IN  Finish("rpc", "GetProto", req, http, GetProto(backend, mock, http, req))

RpcPinContent ==
  \E cid \in CallerCids, http \in PinAnswers(backend) :
    LET req == RpcRequest(<<>>, <<>>, cid)
    IN  Finish("rpc", "PinContent", req, http, PinContent(backend, mock, http, req))

RpcUnpinContent ==
  \E cid \in CallerCids, http \in PinAnswers(backend) :
    LET req == RpcRequest(<<>>, <<>>, cid)
    IN  Finish("rpc", "UnpinContent", req, http, UnpinContent(backend, mock, http, req))

RpcGetGatewayURL ==
  \E cid \in CallerCids :
    LET req == RpcRequest(<<>>, <<>>, cid)
    IN  Finish("rpc", "GetGatewayURL", req, NoHttp, GetGatewayURL(backend, mock, NoHttp, req))

Next ==
  \/ CallUpload
  \/ CallGet
  \/ CallPin
  \/ CallUnpin
  \/ CallGetGatewayURL
  \/ RpcUploadContent
  \/ RpcUploadProto
  \/ RpcGetContent
  \/ RpcGetProto
  \/ RpcPinContent
  \/ RpcUnpinContent
  \/ RpcGetGatewayURL

Spec == Init /\ [][Next]_vars

(***************************************************************************)
(* Properties of Spec.                                                     *)
(***************************************************************************)
UploadedCids(u) == {x.cid : x \in u}

\* C1: on the in-memory adapter, once Upload(b) has returned c, every later
\* Get(c) succeeds and returns exactly b, whatever calls came in between: in
\* every reachable state Get answers each returned identifier with its bytes,
\* and every Get made on such an identifier did.
C1_RoundTrip ==
  backend = "mock" =>
    \A u \in uploaded :
      /\ MockGet(mock, u.cid).res = ClientResult(FALSE, NoAddResponse, u.data, <<>>)
      /\ \A i \in 1..Len(last.calls) :
           last.calls[i].op = "Get" /\ last.calls[i].cid = u.cid
             => /\ ~last.calls[i].result.err
                /\ last.calls[i].result.bytes = u.data

\* C1 witness: a direct Get of the identifier of the empty payload returns
\* the empty payload, after a second upload and a pin happened
C1_Witness ==
  /\ backend = "mock"
  /\ last.layer = "client" /\ last.op = "Get"
  /\ [cid |-> last.req.Cid, data |-> <<>>] \in uploaded
  /\ ~last.calls[1].result.err /\ last.calls[1].result.bytes = <<>>
  /\ Cardinality(uploaded) >= 2
  /\ DOMAIN mock.pins # {}

RequiredFieldEmpty(l) ==
  IF l.op \in {"UploadContent", "UploadProto"}
  THEN Len(l.req.Data) = 0
  ELSE l.req.Cid = <<>>

\* C2: a handler given a request whose required field is empty answers
\* InvalidArgument with no response, makes no call on the storage client and
\* leaves the adapter state as it was.
C2_ValidationFirst ==
  last.layer = "rpc" /\ RequiredFieldEmpty(last)
    => /\ last.code = "InvalidArgument"
       /\ last.resp = NilResponse
       /\ last.calls = <<>>
       /\ mock = last.pre.st

\* C2 witness: UploadContent with empty data was rejected on an adapter that
\* already holds content
C2_Witness ==
  /\ last.layer = "rpc" /\ last.op = "UploadContent"
  /\ last.req.Data = <<>>
  /\ last.code = "InvalidArgument"
  /\ DOMAIN mock.storage # {}

FailureCode(op) ==
  IF op \in {"GetContent", "GetProto"} THEN "NotFound" ELSE "Internal"

\* C3: a handler makes at most one call on the storage client; when that call
\* returns an error the handler answers Internal (uploads, pin, unpin) or
\* NotFound (fetches), with no response, and has called the client once.
C3_FailureMapping ==
  last.layer = "rpc" =>
    /\ Len(last.calls) <= 1
    /\ last.code \in {"OK", "InvalidArgument", "Internal", "NotFound"}
    /\ \A i \in 1..Len(last.calls) :
         last.calls[i].result.err
           => /\ last.code = FailureCode(last.op)
              /\ last.resp = NilResponse
              /\ Len(last.calls) = 1

\* C3 witness: a fetch the remote adapter failed came back NotFound
C3_Witness ==
  /\ last.layer = "rpc" /\ last.op = "GetContent"
  /\ Len(last.calls) = 1 /\ last.calls[1].result.err
  /\ last.code = "NotFound"
  /\ backend = "blockfrost"

\* the identifier was not pinned in the backing store before the last operation
NotPinnedBefore(cid) ==
  IF backend = "mock"
  THEN ~IsPinned(last.pre.st, cid)
  ELSE cid \notin last.pre.acked

\* the backing store answered the last operation's request: the in-memory
\* maps always do, the remote service did when a response came back
StoreAnswered == last.http \in {"none", "ok", "status"}

\* C4: with either adapter, Unpin of an identifier that is not pinned returns
\* no error, whatever the backing store answers.
C4_UnpinNeverFails ==
  \A i \in 1..Len(last.calls) :
    /\ last.calls[i].op = "Unpin"
    /\ NotPinnedBefore(last.calls[i].cid)
    /\ StoreAnswered
    => ~last.calls[i].result.err

\* C5: on the in-memory adapter, Unpin(x) right after Pin(x) of an x that was
\* not pinned leaves the pin set, and IsPinned of every identifier, as they
\* were before the Pin; neither call fails.
C5_PinUnpinCancels ==
  last.cancels.active =>
    /\ mock.pins = last.cancels.pins
    /\ \A c \in CallerCids :
         IsPinned(mock, c) = IsPinned([storage |-> mock.storage,
                                       pins |-> last.cancels.pins], c)
    /\ ~last.calls[1].result.err

\* C5 witness: such a Pin(x); Unpin(x) pair happened while another identifier
\* was pinned
C5_Witness ==
  /\ last.cancels.active
  /\ DOMAIN last.cancels.pins # {}
  /\ last.calls[1].cid \notin DOMAIN mock.pins

\* C6: on the in-memory adapter Upload never fails, the same bytes always get
\* the same identifier, the storage map holds one entry per content, and an
\* Upload of bytes uploaded before leaves the adapter state as it was.
C6_UploadIdempotent ==
  backend = "mock" =>
    /\ \A u, v \in uploaded : u.data = v.data => u.cid = v.cid
    /\ \A u \in uploaded :
         Cardinality({k \in GetStoredCIDs(mock) : mock.storage[k] = u.data}) = 1
    /\ \A i \in 1..Len(last.calls) :
         last.calls[i].op = "Upload"
           => /\ ~last.calls[i].result.err
              /\ \A u \in last.pre.uploaded :
                   u.data = last.calls[i].data
                     => /\ last.calls[i].result.add.IPFSHash = u.cid
                        /\ mock = last.pre.st

\* C6 witness: bytes uploaded before are uploaded again under another name
C6_Witness ==
  /\ backend = "mock"
  /\ CalledOnce(last, "Upload")
  /\ last.calls[1].filename = StrContent
  /\ \E u \in last.pre.uploaded : u.data = last.calls[1].data
  /\ Cardinality(GetStoredCIDs(mock)) >= 2

\* C8: with the in-memory adapter, GetContent and GetProto of a non-empty
\* identifier no upload has returned answer NotFound with no response, pinned
\* or not.
C8_NeverUploadedNotFound ==
  /\ backend = "mock"
  /\ last.layer = "rpc" /\ last.op \in {"GetContent", "GetProto"}
  /\ last.req.Cid # <<>>
  /\ last.req.Cid \notin UploadedCids(last.pre.uploaded)
  => last.code = "NotFound" /\ last.resp = NilResponse

\* C8 witness: GetContent of a pinned identifier that was never uploaded
C8_Witness ==
  /\ backend = "mock"
  /\ last.layer = "rpc" /\ last.op = "GetContent"
  /\ last.req.Cid # <<>>
  /\ last.req.Cid \notin UploadedCids(uploaded)
  /\ IsPinned(mock, last.req.Cid)
  /\ last.code = "NotFound"

\* C9: on the in-memory adapter Pin and Unpin succeed and leave the storage
\* map unchanged, whether or not bytes are stored under the identifier, and
\* Upload and Get leave the pin set unchanged.
C9_PinsAndStorageIndependent ==
  backend = "mock" =>
    \A i \in 1..Len(last.calls) :
      /\ last.calls[i].op \in {"Pin", "Unpin"}
           => ~last.calls[i].result.err /\ mock.storage = last.pre.st.storage
      /\ last.calls[i].op \in {"Upload", "Get"}
           => mock.pins = last.pre.st.pins

\* C9 witness: an identifier with stored bytes was unpinned and its bytes are
\* still stored
C9_Witness ==
  /\ backend = "mock"
  /\ CalledOnce(last, "Unpin")
  /\ IsPinned(last.pre.st, last.calls[1].cid)
  /\ last.calls[1].cid \in GetStoredCIDs(mock)

(***************************************************************************)
(* SpecB58: encodeBase58 on its own.  b58.input is the caller's slice,     *)
(* b58.arg its contents when the call was made, b58.out the result.        *)
(***************************************************************************)
\* the byte values the inputs are built from
B58Bytes == {0, 1, 57, 58, 59, 128, 255}

InitB58 ==
  /\ b58 \in {[input |-> i, arg |-> <<>>, out |-> <<>>, called |-> FALSE] :
                i \in SeqsUpTo(B58Bytes, MaxLen)}
  /\ backend = "mock"
  /\ mock = NewMockState
  /\ acked = {}
  /\ last = NoLast
  /\ uploaded = {}
  /\ ConcIdle

\* result := encodeBase58(input); the function writes to its copy only
\* (grpc.go 179-180), so the caller's slice keeps its contents
B58Encode ==
  /\ ~b58.called
  /\ b58' = [input |-> b58.input, arg |-> b58.input,
             out |-> encodeBase58(b58.input), called |-> TRUE]
  /\ UNCHANGED <<backend, mock, acked, last, uploaded, gor, mu>>

NextB58 == B58Encode

SpecB58 == InitB58 /\ [][NextB58]_vars

\* the reference: the number as base-58 digits, least significant first, with
\* no zero digit at the top; digits * 256 + carry
RECURSIVE MulAdd58(_, _)
MulAdd58(digits, carry) ==
  IF digits = <<>>
  THEN IF carry = 0 THEN <<>> ELSE << carry % 58 >> \o MulAdd58(<<>>, carry \div 58)
  ELSE LET v == Head(digits) * 256 + carry
       IN  << v % 58 >> \o MulAdd58(Tail(digits), v \div 58)

\* the big-endian bytes read as one unsigned number
RECURSIVE BigEndianValue58(_, _)
BigEndianValue58(bytes, digits) ==
  IF bytes = <<>>
  THEN digits
  ELSE BigEndianValue58(Tail(bytes), MulAdd58(digits, Head(bytes)))

\* most significant digit first, as alphabet characters
RECURSIVE DigitsToText(_)
DigitsToText(digits) ==
  IF digits = <<>>
  THEN <<>>
  ELSE Append(DigitsToText(Tail(digits)), AlphabetAt(Head(digits)))

ReferenceBase58(bytes) ==
  [i \in 1..CountLeadingZeros(bytes) |-> "1"]
    \o DigitsToText(BigEndianValue58(bytes, <<>>))

\* the value of up to three bytes, and of a base-58 text, as plain integers
RECURSIVE ValueOfBytes(_, _)
ValueOfBytes(bytes, acc) ==
  IF bytes = <<>> THEN acc ELSE ValueOfBytes(Tail(bytes), acc * 256 + Head(bytes))

AlphabetIndex(c) == (CHOOSE i \in 1..58 : base58Alphabet[i] = c) - 1

RECURSIVE ValueOfText(_, _)
ValueOfText(text, acc) ==
  IF text = <<>> THEN acc ELSE ValueOfText(Tail(text), acc * 58 + AlphabetIndex(Head(text)))

\* C10: encodeBase58 gives the reference base-58 text of its input: one '1'
\* per leading zero byte, then the digits of the big-endian value, most
\* significant first, none for zero; the empty input gives the empty text;
\* the caller's slice is as it was.
C10_EncodeIsReference ==
  b58.called =>
    /\ b58.out = ReferenceBase58(b58.arg)
    /\ b58.arg = <<>> => b58.out = <<>>
    /\ b58.input = b58.arg
    /\ Len(b58.arg) <= 3 =>
         LET z == CountLeadingZeros(b58.arg)
         IN  /\ Len(b58.out) >= z
             /\ \A i \in 1..z : b58.out[i] = "1"
             /\ Len(b58.out) > z => b58.out[z + 1] # "1"
             /\ ValueOfText(SubSeq(b58.out, z + 1, Len(b58.out)), 0)
                  = ValueOfBytes(b58.arg, 0)

\* C10 witness: an input with a leading zero byte and a non-zero value
C10_Witness ==
  /\ b58.called
  /\ b58.arg = <<0, 58>>
  /\ b58.out = << "1", "2", "1" >>

(***************************************************************************)
(* SpecConc: goroutines on one MockClient, one step per lock operation and *)
(* per map access.  Goroutines 1..NumUploaders each upload their own       *)
(* payload once; the other callers fetch, pin and unpin again and again.   *)
(* sync.RWMutex is mu = [writer, readers]: writer is the goroutine holding *)
(* the exclusive lock (0 for none), readers those holding the shared lock. *)
(* A waiting Lock does not hold back later RLock calls here, as it does in *)
(* Go: the model has every interleaving Go has, and more.  The uploaders'  *)
(* file names, which reach the log and the result's Name only, are left    *)
(* empty.                                                                  *)
(***************************************************************************)
Uploaders == 1..NumUploaders

OtherCallers == {NumUploaders + 1, NumUploaders + 2}

Goroutines == Uploaders \cup OtherCallers

\* the identifiers the other callers pass
ConcCids == {ComputeCid(PayloadList[1]), UnknownCid}

NoResult == ClientResult(FALSE, NoAddResponse, <<>>, <<>>)

Goroutine(pc, op, cid, data, ret) ==
  [pc |-> pc, op |-> op, cid |-> cid, data |-> data, ret |-> ret]

\* c.mu.Lock() can proceed
CanLock(m) == m.writer = 0 /\ m.readers = {}

\* c.mu.RLock() can proceed
CanRLock(m) == m.writer = 0

InitConc ==
  /\ backend = "mock"
  /\ mock = NewMockState
  /\ mu = [writer |-> 0, readers |-> {}]
  /\ gor = [g \in Goroutines |->
              IF g \in Uploaders
              THEN Goroutine("idle", "Upload", <<>>, PayloadList[g], NoResult)
              ELSE Goroutine("idle", "none", <<>>, <<>>, NoResult)]
  /\ acked = {}
  /\ last = NoLast
  /\ uploaded = {}
  /\ B58Idle

ConcFrame == UNCHANGED <<backend, acked, last, uploaded, b58>>

\* Upload, lines 242-251: the identifier is computed before the lock is taken
UploadBegin(g) ==
  /\ g \in Uploaders /\ gor[g].pc = "idle"
  /\ gor' = [gor EXCEPT ![g].pc = "lock", ![g].cid = ComputeCid(gor[g].data)]
  /\ UNCHANGED <<mock, mu>> /\ ConcFrame

\* an Upload that takes the shared lock for its write
UploadLock_Shared(g) ==
  /\ gor[g].op = "Upload" /\ gor[g].pc = "lock"
  /\ CanRLock(mu)
  /\ mu' = [mu EXCEPT !.readers = @ \cup {g}]
  /\ gor' = [gor EXCEPT ![g].pc = "access"]
  /\ UNCHANGED mock /\ ConcFrame

\* Upload, line 253: c.mu.Lock()
UploadLock(g) ==
  /\ gor[g].op = "Upload" /\ gor[g].pc = "lock"
  /\ CanLock(mu)
  /\ mu' = [mu EXCEPT !.writer = g]
  /\ gor' = [gor EXCEPT ![g].pc = "access"]
  /\ UNCHANGED mock /\ ConcFrame

\* Upload, line 254: c.storage[cid] = data
UploadWrite(g) ==
  /\ gor[g].op = "Upload" /\ gor[g].pc = "access"
  /\ mock' = [mock EXCEPT !.storage = MapSet(@, gor[g].cid, gor[g].data)]
  /\ gor' = [gor EXCEPT ![g].pc = "unlock"]
  /\ UNCHANGED mu /\ ConcFrame

\* Upload, lines 255-263: c.mu.Unlock(), then the result
UploadReturn(g) ==
  /\ gor[g].op = "Upload" /\ gor[g].pc = "unlock"
  /\ mu' = [mu EXCEPT !.writer = 0]
  /\ gor' = [gor EXCEPT ![g].pc = "done",
                        ![g].ret = ClientResult(FALSE,
                                     AddResponse(<<>>, gor[g].cid,
                                                 FormatDecimal(Len(gor[g].data))),
                                     <<>>, <<>>)]
  /\ UNCHANGED mock /\ ConcFrame

\* another caller starts a Get, a Pin or an Unpin
OtherBegin(g) ==
  /\ g \in OtherCallers /\ gor[g].pc = "idle"
  /\ \E op \in {"Get", "Pin", "Unpin"}, cid \in ConcCids :
       gor' = [gor EXCEPT ![g] = Goroutine("lock", op, cid, <<>>, NoResult)]
  /\ UNCHANGED <<mock, mu>> /\ ConcFrame

\* Get, line 268: c.mu.RLock()
GetRLock(g) ==
  /\ gor[g].op = "Get" /\ gor[g].pc = "lock"
  /\ CanRLock(mu)
  /\ mu' = [mu EXCEPT !.readers = @ \cup {g}]
  /\ gor' = [gor EXCEPT ![g].pc = "access"]
  /\ UNCHANGED mock /\ ConcFrame

\* Get, line 269: data, ok := c.storage[cid]
GetRead(g) ==
  /\ gor[g].op = "Get" /\ gor[g].pc = "access"
  /\ gor' = [gor EXCEPT ![g].pc = "unlock",
                        ![g].ret = MockGet(mock, gor[g].cid).res]
  /\ UNCHANGED <<mock, mu>> /\ ConcFrame

\* Get, lines 270-280: c.mu.RUnlock(), then the result
GetReturn(g) ==
  /\ gor[g].op = "Get" /\ gor[g].pc = "unlock"
  /\ mu' = [mu EXCEPT !.readers = @ \ {g}]
  /\ gor' = [gor EXCEPT ![g].pc = "idle"]
  /\ UNCHANGED mock /\ ConcFrame

\* Pin, line 285, and Unpin, line 295: c.mu.Lock()
PinLock(g) ==
  /\ gor[g].op \in {"Pin", "Unpin"} /\ gor[g].pc = "lock"
  /\ CanLock(mu)
  /\ mu' = [mu EXCEPT !.writer = g]
  /\ gor' = [gor EXCEPT ![g].pc = "access"]
  /\ UNCHANGED mock /\ ConcFrame

\* Pin, line 286: c.pins[cid] = true
PinWrite(g) ==
  /\ gor[g].op = "Pin" /\ gor[g].pc = "access"
  /\ mock' = [mock EXCEPT !.pins = MapSet(@, gor[g].cid, TRUE)]
  /\ gor' = [gor EXCEPT ![g].pc = "unlock"]
  /\ UNCHANGED mu /\ ConcFrame

\* Unpin, line 296: delete(c.pins, cid)
UnpinWrite(g) ==
  /\ gor[g].op = "Unpin" /\ gor[g].pc = "access"
  /\ mock' = [mock EXCEPT !.pins = MapDelete(@, gor[g].cid)]
  /\ gor' = [gor EXCEPT ![g].pc = "unlock"]
  /\ UNCHANGED mu /\ ConcFrame

\* Pin, lines 287-290, and Unpin, lines 297-300: c.mu.Unlock(), return nil
PinReturn(g) ==
  /\ gor[g].op \in {"Pin", "Unpin"} /\ gor[g].pc = "unlock"
  /\ mu' = [mu EXCEPT !.writer = 0]
  /\ gor' = [gor EXCEPT ![g].pc = "idle"]
  /\ UNCHANGED mock /\ ConcFrame

NextConc ==
  \E g \in Goroutines :
    \/ UploadBegin(g)
    \/ UploadLock(g)
    \/ UploadWrite(g)
    \/ UploadReturn(g)
    \/ OtherBegin(g)
    \/ GetRLock(g)
    \/ GetRead(g)
    \/ GetReturn(g)
    \/ PinLock(g)
    \/ PinWrite(g)
    \/ UnpinWrite(g)
    \/ PinReturn(g)

SpecConc == InitConc /\ [][NextConc]_vars

\* an upload that has returned succeeded with the identifier of its payload,
\* and its payload is stored under that identifier
C7_NoUploadLost ==
  \A g \in Uploaders :
    gor[g].pc = "done"
      => /\ ~gor[g].ret.err
         /\ gor[g].ret.add.IPFSHash = ComputeCid(PayloadList[g])
         /\ MockGet(mock, gor[g].ret.add.IPFSHash).res
              = ClientResult(FALSE, NoAddResponse, PayloadList[g], <<>>)

\* a goroutine about to access a map holds the lock its access needs, and the
\* exclusive lock excludes every other holder
C7_LockHeld ==
  /\ \A g \in Goroutines :
       gor[g].pc = "access"
         => IF gor[g].op = "Get"
            THEN mu.writer = g \/ g \in mu.readers
            ELSE mu.writer = g
  /\ mu.writer # 0 => mu.readers = {}

\* the storage map changes only in a step of the holder of the exclusive
\* lock, and a Get that reads after an upload returned finds its payload
C7_Step ==
  /\ mock'.storage # mock.storage
       => \E g \in Goroutines : mu.writer = g /\ gor'[g].pc # gor[g].pc
  /\ \A r \in OtherCallers, g \in Uploaders :
       /\ gor[r].op = "Get" /\ gor[r].pc = "access" /\ gor'[r].pc = "unlock"
       /\ gor[g].pc = "done" /\ gor[r].cid = gor[g].cid
       => gor'[r].ret = ClientResult(FALSE, NoAddResponse, PayloadList[g], <<>>)

\* C7: concurrent uploads of distinct payloads, with fetches, pins and unpins
\* of other callers interleaved, all succeed, none is lost or overwritten, and
\* each payload is fetchable under its own identifier once its upload has
\* returned; the maps are written under the exclusive lock only and read
\* under a lock only.
C7_ConcurrentUploads ==
  /\ [](C7_NoUploadLost /\ C7_LockHeld)
  /\ [][C7_Step]_vars

\* C7 witness: every upload has returned, every payload is stored, and a
\* concurrent Get has fetched the first payload while another caller holds
\* the shared lock
C7_Witness ==
  /\ \A g \in Uploaders : gor[g].pc = "done"
  /\ Cardinality(GetStoredCIDs(mock)) = NumUploaders
  /\ \E r \in OtherCallers :
       /\ gor[r].op = "Get" /\ gor[r].pc = "unlock"
       /\ gor[r].ret = ClientResult(FALSE, NoAddResponse, PayloadList[1], <<>>)
       /\ mu.readers = OtherCallers

(***************************************************************************)
(* Content addressing of the in-memory adapter, under Spec.                *)
(***************************************************************************)
\* C11: in the in-memory adapter every key of the storage map is the
\* identifier the codec computes for the bytes stored under it; an operation
\* adds at most the key its Upload computed and returned, never one a caller
\* passed to Get, Pin, Unpin or GetGatewayURL; and the bytes under a key that
\* was there before the last operation are still there, unchanged.
C11_ContentAddressed ==
  backend = "mock" =>
    /\ \A k \in GetStoredCIDs(mock) : k = ComputeCid(mock.storage[k])
    /\ \A k \in GetStoredCIDs(last.pre.st) :
         k \in GetStoredCIDs(mock) /\ mock.storage[k] = last.pre.st.storage[k]
    /\ GetStoredCIDs(mock) \ GetStoredCIDs(last.pre.st)
         \subseteq {last.calls[i].result.add.IPFSHash :
                      i \in {j \in 1..Len(last.calls) : last.calls[j].op = "Upload"}}

\* C11 witness: with two payloads stored, a caller pinned an identifier no
\* upload produced, and the storage map has no entry for it
C11_Witness ==
  /\ backend = "mock"
  /\ CalledOnce(last, "Pin")
  /\ last.calls[1].cid = UnknownCid
  /\ IsPinned(mock, UnknownCid)
  /\ UnknownCid \notin GetStoredCIDs(mock)
  /\ Cardinality(GetStoredCIDs(mock)) >= 2
  /\ \A k \in GetStoredCIDs(mock) : k = ComputeCid(mock.storage[k])

=============================================================================
